---------------------------- MODULE Spec2Model ----------------------------
(***************************************************************************)
(* Model of app/agent.py: the research pipeline (SequentialAgent with a    *)
(* LoopAgent inside), the source registry kept in the session state by     *)
(* collect_research_sources_callback, and citation_replacement_callback.   *)
(*                                                                         *)
(* Conventions.                                                            *)
(*   - A Python str is a sequence of one-character strings.                *)
(*   - An Optional value is a sequence of length 0 or 1: None is <<>> and  *)
(*     a present value v is <<v>> (Some(v)).                               *)
(*   - A Python dict is a function; its keys are its DOMAIN.               *)
(*   - A confidence score (a float in [0,1]) is an integer number of       *)
(*     hundredths: 0.5 is 50.                                              *)
(*   - A Python list index i (0-based) is position i+1 of a sequence.      *)
(***************************************************************************)
EXTENDS Integers, Sequences, FiniteSets, TLC

VARIABLES
    pc,              \* the sub-agent of research_pipeline that runs next
    times_looped,    \* LoopAgent: completed passes over its sub_agents
    loop_idx,        \* LoopAgent: position of the next sub-agent in a pass
    loop_exit,       \* LoopAgent: "Running", "Escalated" or "Exhausted"
    state,           \* session.state: dict from key to value
    session_events,  \* session.events
    eval_steps,      \* history: runs of research_evaluator
    search_steps,    \* history: runs of enhanced_search_executor
    grades,          \* history: the grades research_evaluator produced
    record_calls,    \* history: per record call, <<events seen, registry size before, after>>
    warnings,        \* history: the tags logged as invalid by tag_replacer
    escalate         \* EscalationChecker: None before it ran, then whether
                     \* the event it yielded has actions.escalate

vars == <<pc, times_looped, loop_idx, loop_exit, state, session_events,
          eval_steps, search_steps, grades, record_calls, warnings, escalate>>

---------------------------------------------------------------------------
(* Optional values and dicts *)

None == <<>>

Some(v) == <<v>>

IsNone(o) == Len(o) = 0

\* dict.get(key, default)
DictGet(d, key, default) == IF key \in DOMAIN d THEN d[key] ELSE default

\* d[key] = value on a dict
DictSet(d, key, value) == [k \in DOMAIN d \cup {key} |-> IF k = key THEN value ELSE d[k]]

EmptyDict == [k \in {} |-> None]

---------------------------------------------------------------------------
(* Strings *)

DigitChars == <<"0", "1", "2", "3", "4", "5", "6", "7", "8", "9">>

RECURSIVE IntToStr(_)
\* str(n) for n >= 0, as the f-string of line 95 formats id_counter
IntToStr(n) ==
    IF n < 10 THEN <<DigitChars[n + 1]>>
    ELSE IntToStr(n \div 10) \o <<DigitChars[(n % 10) + 1]>>

\* str(v) as an f-string formats an Optional[str]: None prints as "None"
Str(o) == IF IsNone(o) THEN <<"N", "o", "n", "e">> ELSE o[1]

\* the id without the counter
ShortIdFirst(id_counter) == <<"s", "r", "c", "-", "1">>

\* f"src-{id_counter}"
ShortId(id_counter) == <<"s", "r", "c", "-">> \o IntToStr(id_counter)

---------------------------------------------------------------------------
(* collect_research_sources_callback (SourceRegistry.record)                *)
(*                                                                         *)
(* An event is [grounding_metadata : Optional metadata]; a metadata is     *)
(* [grounding_chunks : Optional list, grounding_supports : Optional list]; *)
(* a chunk is [web : Optional [uri, title, domain : Optional str]]; a      *)
(* support is [segment : Optional [text : Optional str],                   *)
(* confidence_scores : Optional list, grounding_chunk_indices : Optional   *)
(* list].                                                                  *)

\* Python truthiness of an Optional list: neither None nor empty
Truthy(o) == ~IsNone(o) /\ Len(o[1]) > 0

\* `o or []` on an Optional list
OrEmpty(o) == IF Truthy(o) THEN o[1] ELSE <<>>

\* the dict literal with the domain stored as the url
NewSourceDomainAsUrl(short_id, title, url, domain) ==
    [short_id |-> short_id, title |-> title, url |-> domain, domain |-> domain,
     supported_claims |-> <<>>]

\* the dict literal of lines 97-103
NewSource(short_id, title, url, domain) ==
    [short_id |-> short_id, title |-> title, url |-> url, domain |-> domain,
     supported_claims |-> <<>>]

\* the title expression of lines 89-93
ChunkTitle(web) == IF web.title # web.domain THEN web.title ELSE web.domain

\* line 94 with the test lost: every web chunk mints
IsNewUrlAlways(url, url_to_short_id) == TRUE

\* the test of line 94
IsNewUrl(url, url_to_short_id) == url \notin DOMAIN url_to_short_id

\* line 80 without its + 1
InitialIdCounterFromLen(url_to_short_id) == Cardinality(DOMAIN url_to_short_id)

\* the counter's first value, line 80
InitialIdCounter(url_to_short_id) == Cardinality(DOMAIN url_to_short_id) + 1

\* the chunk loop's body writing the title and domain of every chunk over
\* those of the Source its URL already has
ChunkStepLastWins(r, idx, chunk) ==
    IF IsNone(chunk.web) THEN r
    ELSE
      LET web == chunk.web[1]
          url == web.uri
          title == ChunkTitle(web)
          fresh == IsNewUrl(url, r.url_to_short_id)
          short_id == ShortId(r.id_counter)
          u2s == IF fresh THEN DictSet(r.url_to_short_id, url, short_id)
                 ELSE r.url_to_short_id
          srcs == IF fresh
                  THEN DictSet(r.sources, short_id,
                               NewSource(short_id, title, url, web.domain))
                  ELSE [r.sources EXCEPT ![u2s[url]].title = title,
                                          ![u2s[url]].domain = web.domain]
      IN [url_to_short_id |-> u2s,
          sources |-> srcs,
          id_counter |-> IF fresh THEN r.id_counter + 1 ELSE r.id_counter,
          chunks_info |-> DictSet(r.chunks_info, idx, u2s[url])]

\* One pass of the body of the chunk loop, lines 86-105.
\* r = [url_to_short_id, sources, id_counter, chunks_info]; idx is 0-based.
ChunkStep(r, idx, chunk) ==
    IF IsNone(chunk.web) THEN r
    ELSE
      LET web == chunk.web[1]
          url == web.uri
          title == ChunkTitle(web)
          fresh == IsNewUrl(url, r.url_to_short_id)
          short_id == ShortId(r.id_counter)
          u2s == IF fresh THEN DictSet(r.url_to_short_id, url, short_id)
                 ELSE r.url_to_short_id
          srcs == IF fresh
                  THEN DictSet(r.sources, short_id,
                               NewSource(short_id, title, url, web.domain))
                  ELSE r.sources
      IN [url_to_short_id |-> u2s,
          sources |-> srcs,
          id_counter |-> IF fresh THEN r.id_counter + 1 ELSE r.id_counter,
          chunks_info |-> DictSet(r.chunks_info, idx, u2s[url])]

RECURSIVE ChunkLoop(_, _, _)
\* for idx, chunk in enumerate(grounding_chunks), line 85
ChunkLoop(r, chunks, idx) ==
    IF idx >= Len(chunks) THEN r
    ELSE ChunkLoop(ChunkStep(r, idx, chunks[idx + 1]), chunks, idx + 1)

\* the default of line 114 as 0.0
ConfidenceDefaultZero(confidence_scores, i) ==
    IF i < Len(confidence_scores) THEN confidence_scores[i + 1] ELSE 0

\* lines 113-115; i is 0-based
Confidence(confidence_scores, i) ==
    IF i < Len(confidence_scores) THEN confidence_scores[i + 1] ELSE 50

\* line 116: an Optional str; the literal "" is Some("")
TextSegment(support) ==
    IF ~IsNone(support.segment) THEN support.segment[1].text ELSE Some(<<>>)

\* the claim put at the front of the list
AppendClaimFirst(sources, short_id, claim) ==
    [sources EXCEPT ![short_id].supported_claims = <<claim>> \o @]

\* sources[short_id]["supported_claims"].append(claim), lines 117-122
AppendClaim(sources, short_id, claim) ==
    [sources EXCEPT ![short_id].supported_claims = Append(@, claim)]

\* the inner loop's body with the test of line 112 lost: an index that is
\* not in the mapping is taken for the lowest index that is
IndexStepAnyIndex(sources, chunks_info, support, i) ==
    LET chunk_indices == OrEmpty(support.grounding_chunk_indices)
        chunk_idx == chunk_indices[i + 1]
        claim == [text_segment |-> TextSegment(support),
                  confidence |-> Confidence(OrEmpty(support.confidence_scores), i)]
    IN IF chunk_idx \in DOMAIN chunks_info
       THEN AppendClaim(sources, chunks_info[chunk_idx], claim)
       ELSE IF DOMAIN chunks_info # {}
       THEN AppendClaim(sources,
                        chunks_info[CHOOSE k \in DOMAIN chunks_info :
                                        \A j \in DOMAIN chunks_info : k <= j],
                        claim)
       ELSE sources

\* One pass of the body of the inner loop, lines 111-122; i is 0-based.
IndexStep(sources, chunks_info, support, i) ==
    LET chunk_indices == OrEmpty(support.grounding_chunk_indices)
        chunk_idx == chunk_indices[i + 1]
    IN IF chunk_idx \in DOMAIN chunks_info
       THEN AppendClaim(sources, chunks_info[chunk_idx],
                        [text_segment |-> TextSegment(support),
                         confidence |-> Confidence(OrEmpty(support.confidence_scores), i)])
       ELSE sources

RECURSIVE IndexLoop(_, _, _, _)
\* for i, chunk_idx in enumerate(chunk_indices), line 110
IndexLoop(sources, chunks_info, support, i) ==
    IF i >= Len(OrEmpty(support.grounding_chunk_indices)) THEN sources
    ELSE IndexLoop(IndexStep(sources, chunks_info, support, i), chunks_info, support, i + 1)

RECURSIVE SupportLoop(_, _, _, _)
\* for support in grounding_supports, line 107; k is 1-based
SupportLoop(sources, chunks_info, supports, k) ==
    IF k > Len(supports) THEN sources
    ELSE SupportLoop(IndexLoop(sources, chunks_info, supports[k], 0),
                     chunks_info, supports, k + 1)

\* One pass of the body of the event loop, lines 82-122.
\* r = [url_to_short_id, sources, id_counter]
EventStep(r, event) ==
    IF ~(~IsNone(event.grounding_metadata)
         /\ Truthy(event.grounding_metadata[1].grounding_chunks))
    THEN r
    ELSE
      LET md == event.grounding_metadata[1]
          c == ChunkLoop([url_to_short_id |-> r.url_to_short_id,
                          sources |-> r.sources,
                          id_counter |-> r.id_counter,
                          chunks_info |-> EmptyDict],
                         md.grounding_chunks[1], 0)
      IN [url_to_short_id |-> c.url_to_short_id,
          sources |-> IF Truthy(md.grounding_supports)
                      THEN SupportLoop(c.sources, c.chunks_info,
                                       md.grounding_supports[1], 1)
                      ELSE c.sources,
          id_counter |-> c.id_counter]

RECURSIVE EventLoop(_, _, _)
\* for event in session.events, line 81; k is 1-based
EventLoop(r, events, k) ==
    IF k > Len(events) THEN r
    ELSE EventLoop(EventStep(r, events[k]), events, k + 1)

\* collect_research_sources_callback: the session state after the call
Record(st, events) ==
    LET url_to_short_id == DictGet(st, "url_to_short_id", EmptyDict)
        sources == DictGet(st, "sources", EmptyDict)
        r == EventLoop([url_to_short_id |-> url_to_short_id,
                        sources |-> sources,
                        id_counter |-> InitialIdCounter(url_to_short_id)],
                       events, 1)
    IN DictSet(DictSet(st, "url_to_short_id", r.url_to_short_id),
               "sources", r.sources)

---------------------------------------------------------------------------
(* citation_replacement_callback (CitationRewriter.rewrite)                *)

\* \s of a str pattern, on the characters the model's texts use
IsSpace(c) == c \in {" ", "\t", "\n", "\r", "\f"}

\* \d
IsDigit(c) == c \in {"0", "1", "2", "3", "4", "5", "6", "7", "8", "9"}

\* ["\']
IsQuote(c) == c \in {"\"", "'"}

\* [.,;:]
IsPunct(c) == c \in {".", ",", ";", ":"}

RECURSIVE SkipSpace(_, _)
\* \s* from position i: the first position at or after i that holds no whitespace
SkipSpace(s, i) == IF i <= Len(s) /\ IsSpace(s[i]) THEN SkipSpace(s, i + 1) ELSE i

RECURSIVE SkipDigits(_, _)
\* \d* from position i
SkipDigits(s, i) == IF i <= Len(s) /\ IsDigit(s[i]) THEN SkipDigits(s, i + 1) ELSE i

\* ["\']? from position i
SkipQuote(s, i) == IF i <= Len(s) /\ IsQuote(s[i]) THEN i + 1 ELSE i

\* the literal lit stands in s at position i
HasLiteral(s, i, lit) ==
    /\ i + Len(lit) - 1 <= Len(s)
    /\ \A k \in 1..Len(lit) : s[i + k - 1] = lit[k]

\* s[i..j-1]
Slice(s, i, j) == [k \in 1..(j - i) |-> s[i + k - 1]]

\* The pattern of line 154 tried at position i of s:
\*   <cite\s+source\s*=\s*["\']?\s*(src-\d+)\s*["\']?\s*/>
\* Every repetition of the pattern is followed by an item that none of the
\* characters it repeats can start, so the backtracking matcher finds a match
\* exactly when the greedy left-to-right scan does, and the same one.
\* Returns [ok, end (the position after the match), group1, group0].
MatchCite(s, i) ==
    LET a == i + 5                \* after <cite
        b == SkipSpace(s, a)      \* after \s+
        c == b + 6                \* after source
        d == SkipSpace(s, c)      \* after \s*
        e == d + 1                \* after =
        f == SkipSpace(s, e)      \* after \s*
        g == SkipQuote(s, f)      \* after ["\']?
        h == SkipSpace(s, g)      \* after \s*
        j == h + 4                \* after src-
        k == SkipDigits(s, j)     \* after \d+
        l == SkipSpace(s, k)      \* after \s*
        m == SkipQuote(s, l)      \* after ["\']?
        n == SkipSpace(s, m)      \* after \s*
        ok == /\ HasLiteral(s, i, <<"<", "c", "i", "t", "e">>)
              /\ b > a
              /\ HasLiteral(s, b, <<"s", "o", "u", "r", "c", "e">>)
              /\ HasLiteral(s, d, <<"=">>)
              /\ HasLiteral(s, h, <<"s", "r", "c", "-">>)
              /\ k > j
              /\ HasLiteral(s, n, <<"/", ">">>)
    IN IF ok
       THEN [ok |-> TRUE, end |-> n + 2, group1 |-> Slice(s, h, k),
             group0 |-> Slice(s, i, n + 2)]
       ELSE [ok |-> FALSE, end |-> i, group1 |-> <<>>, group0 |-> <<>>]

\* re.search of the pattern of line 154 in s
HasCite(s) == \E i \in 1..Len(s) : MatchCite(s, i).ok

\* line 150: the text shown for a source, an Optional str
DisplayText(source_info, short_id) ==
    DictGet(source_info, "title", DictGet(source_info, "domain", Some(short_id)))

\* line 151 without the space before the link
LinkNoLeadingSpace(source_info, short_id) ==
    <<"[">> \o Str(DictGet(source_info, "title", DictGet(source_info, "domain", Some(short_id))))
        \o <<"]", "(">> \o Str(source_info.url) \o <<")">>

\* line 151
Link(source_info, short_id) ==
    <<" ", "[">> \o Str(DisplayText(source_info, short_id)) \o <<"]", "(">>
        \o Str(source_info.url) \o <<")">>

\* line 147: the lookup fails (a missing key, or an empty dict)
IsInvalidTag(short_id, sources) ==
    short_id \notin DOMAIN sources \/ DOMAIN sources[short_id] = {}

\* tag_replacer, lines 145-151, on a match m
TagReplacer(m, sources) ==
    IF IsInvalidTag(m.group1, sources) THEN <<>>
    ELSE Link(sources[m.group1], m.group1)

RECURSIVE CiteSub(_, _, _)
\* re.sub of lines 153-157 from position i on: the matches are found left to
\* right in the draft and do not overlap; a replacement is not scanned again
CiteSub(s, sources, i) ==
    IF i > Len(s) THEN <<>>
    ELSE LET m == MatchCite(s, i)
         IN IF m.ok THEN TagReplacer(m, sources) \o CiteSub(s, sources, m.end)
            ELSE <<s[i]>> \o CiteSub(s, sources, i + 1)

RECURSIVE CiteWarnings(_, _, _)
\* the tags logging.warning reports (line 148) during that re.sub, in order
CiteWarnings(s, sources, i) ==
    IF i > Len(s) THEN <<>>
    ELSE LET m == MatchCite(s, i)
         IN IF m.ok
            THEN (IF IsInvalidTag(m.group1, sources) THEN <<m.group0>> ELSE <<>>)
                     \o CiteWarnings(s, sources, m.end)
            ELSE CiteWarnings(s, sources, i + 1)

RECURSIVE PunctSubOneSpace(_, _)
\* the pass with \s for \s+: one whitespace character before the punctuation
PunctSubOneSpace(s, i) ==
    IF i > Len(s) THEN <<>>
    ELSE IF i < Len(s) /\ IsSpace(s[i]) /\ IsPunct(s[i + 1])
         THEN <<s[i + 1]>> \o PunctSubOneSpace(s, i + 2)
         ELSE <<s[i]>> \o PunctSubOneSpace(s, i + 1)

RECURSIVE PunctSub(_, _)
\* re.sub(r"\s+([.,;:])", r"\1", s) of line 158 from position i on
PunctSub(s, i) ==
    IF i > Len(s) THEN <<>>
    ELSE LET j == SkipSpace(s, i)
         IN IF j > i /\ j <= Len(s) /\ IsPunct(s[j])
            THEN <<s[j]>> \o PunctSub(s, j + 1)
            ELSE <<s[i]>> \o PunctSub(s, i + 1)

\* processed_report, lines 153-158
ProcessedReport(final_report, sources) ==
    PunctSub(CiteSub(final_report, sources, 1), 1)

\* the callback writing the processed report over the draft as well
CitationReplacementInPlace(st) ==
    LET final_report == DictGet(st, "final_cited_report", <<>>)
        sources == DictGet(st, "sources", EmptyDict)
        processed_report == ProcessedReport(final_report, sources)
    IN DictSet(DictSet(st, "final_report_with_citations", processed_report),
               "final_cited_report", processed_report)

\* citation_replacement_callback: the session state after the call
CitationReplacement(st) ==
    LET final_report == DictGet(st, "final_cited_report", <<>>)
        sources == DictGet(st, "sources", EmptyDict)
    IN DictSet(st, "final_report_with_citations",
               ProcessedReport(final_report, sources))

---------------------------------------------------------------------------
(* The inputs the external collaborators (the LLM agents and the search    *)
(* tool) may produce.                                                      *)

\* the most grounding events one research agent adds to the session in a run
MaxNewEvents == 2

\* the most grounding events a session holds
MaxSessionEvents == 3

UrlX == Some(<<"h", "t", "t", "p", ":", "/", "/", "x">>)

UrlY == Some(<<"h", "t", "t", "p", ":", "/", "/", "y">>)

UrlZ == Some(<<"z", ".", "c", "o", "m", "/", "a">>)

WebChunk(uri, title, domain) ==
    [web |-> Some([uri |-> uri, title |-> title, domain |-> domain])]

\* a chunk that is no web reference (chunk.web is None)
NoWebChunk == [web |-> None]

ChunkX == WebChunk(UrlX, Some(<<"E", "x", "a", "m", "p", "l", "e">>), Some(<<"x">>))

\* the URL of ChunkX again, under another title and domain
ChunkXAgain == WebChunk(UrlX, Some(<<"O", "t", "h", "e", "r">>), Some(<<"x", ".", "o", "r", "g">>))

\* no title
ChunkY == WebChunk(UrlY, None, Some(<<"y", ".", "i", "o">>))

\* the title is the domain
ChunkZ == WebChunk(UrlZ, Some(<<"z", ".", "c", "o", "m">>), Some(<<"z", ".", "c", "o", "m">>))

Support(text, scores, indices) ==
    [segment |-> text, confidence_scores |-> scores, grounding_chunk_indices |-> indices]

Segment(text) == Some([text |-> Some(text)])

GroundingEvent(chunks, supports) ==
    [grounding_metadata |->
        Some([grounding_chunks |-> chunks, grounding_supports |-> supports])]

\* what a search may add to session.events
EventPool == <<
    \* two sources; the second support names both and has one score only
    GroundingEvent(Some(<<ChunkX, ChunkY>>),
                   Some(<<Support(Segment(<<"a">>), Some(<<90>>), Some(<<0>>)),
                          Support(Segment(<<"b">>), Some(<<80>>), Some(<<0, 1>>))>>)),
    \* the same URL in two chunks of one event, a chunk that is no web
    \* reference, and a support with no segment, no scores and an index
    \* that names no chunk
    GroundingEvent(Some(<<ChunkXAgain, NoWebChunk, ChunkX>>),
                   Some(<<Support(None, None, Some(<<0, 2, 1, 7>>))>>)),
    \* an event with no grounding metadata
    [grounding_metadata |-> None],
    \* supports but no chunks
    GroundingEvent(Some(<<>>),
                   Some(<<Support(Segment(<<"a">>), Some(<<90>>), Some(<<0>>))>>)),
    \* a chunk and no supports
    GroundingEvent(Some(<<ChunkZ>>), None)
>>

RECURSIVE SeqsUpTo(_, _)
\* the sequences of at most n elements of S
SeqsUpTo(S, n) ==
    IF n = 0 THEN {<<>>}
    ELSE LET shorter == SeqsUpTo(S, n - 1)
         IN shorter \cup {Append(q, x) : q \in shorter, x \in S}

\* the events one run of a research agent may add
NewEvents == SeqsUpTo({EventPool[k] : k \in 1..Len(EventPool)}, MaxNewEvents)

\* the Feedback research_evaluator may produce, lines 48-60
Grades == {"pass", "fail"}

Feedback(grade) == [grade |-> grade]

\* the pieces report_composer may put a draft together from
DraftPieces == <<
    \* `Fee `
    <<"F", "e", "e", " ">>,
    \* `<cite source="src-1"/>`
    <<"<", "c", "i", "t", "e", " ", "s", "o", "u", "r", "c", "e", "=", "\"", "s", "r", "c", "-", "1", "\"", "/", ">">>,
    \* ` , Bar.`
    <<" ", ",", " ", "B", "a", "r", ".">>,
    \* `<cite source=`
    <<"<", "c", "i", "t", "e", " ", "s", "o", "u", "r", "c", "e", "=">>,
    \* `"src-1"/>`
    <<"\"", "s", "r", "c", "-", "1", "\"", "/", ">">>,
    \* `<cite source="src-99"/>`
    <<"<", "c", "i", "t", "e", " ", "s", "o", "u", "r", "c", "e", "=", "\"", "s", "r", "c", "-", "9", "9", "\"", "/", ">">>,
    \* `<cite  source = 'src-2' />`
    <<"<", "c", "i", "t", "e", " ", " ", "s", "o", "u", "r", "c", "e", " ", "=", " ", "'", "s", "r", "c", "-", "2", "'", " ", "/", ">">>
>>

RECURSIVE Concat(_)
\* "".join(pieces)
Concat(pieces) == IF pieces = <<>> THEN <<>> ELSE Head(pieces) \o Concat(Tail(pieces))

\* Fee <cite source="src-1"/> , Bar.
DraftFeeBar == Concat(<<DraftPieces[1], DraftPieces[2], DraftPieces[3]>>)

\* Fee <cite source="src-99"/><cite  source = 'src-2' />
DraftTwoTags == Concat(<<DraftPieces[1], DraftPieces[6], DraftPieces[7]>>)

\* <cite source=<cite source="src-99"/>"src-1"/>
DraftNested == Concat(<<DraftPieces[4], DraftPieces[6], DraftPieces[5]>>)

\* the drafts report_composer may write in a run of the whole pipeline
PipelineDrafts == {DraftFeeBar, DraftTwoTags, DraftNested}

\* the text an LLM agent saves under its output_key; its content is not modelled
SomeText == <<"t">>

---------------------------------------------------------------------------
(* research_pipeline: SequentialAgent [section_planner, section_researcher, *)
(* LoopAgent [research_evaluator, enhanced_search_executor],               *)
(* report_composer], lines 286-302.                                        *)

\* LoopAgent(max_iterations=2), line 294
max_iterations == 2

\* the loop with its sub-agents swapped
LoopSubAgentsSearchFirst == <<"enhanced_search_executor", "research_evaluator">>

\* the sub_agents of iterative_refinement_loop, lines 295-298
LoopSubAgents == <<"research_evaluator", "enhanced_search_executor">>

\* the checker without the test of the grade
EscalationCheckerAnyGrade(st) ==
    ~IsNone(DictGet(st, "research_evaluation", None))

\* EscalationChecker._run_async_impl, lines 173-184: the escalate flag of the
\* event it yields
EscalationChecker(st) ==
    LET evaluation_result == DictGet(st, "research_evaluation", None)
    IN /\ ~IsNone(evaluation_result)
       /\ DictGet(evaluation_result[1], "grade", None) = Some("pass")

\* Whether an event of a run of `agent` carries actions.escalate.  An LlmAgent
\* without a tool that sets the flag never does; only EscalationChecker
\* (lines 164-184) yields it.
Escalates(agent, st) ==
    IF agent = "escalation_checker" THEN EscalationChecker(st) ELSE FALSE

\* the loop with no bound
LoopContinuesAlways(times) == TRUE

\* the loop test off by one
LoopContinuesOneMore(times) == times <= max_iterations

\* LoopAgent: whether another pass starts after `times` completed passes
LoopContinues(times) == times < max_iterations

\* LoopAgent after the run of its sub-agent at loop_idx, which left the
\* session state st: an escalating event ends the loop at once; after the last
\* sub-agent of a pass times_looped grows, and the loop ends when it reaches
\* max_iterations.  SequentialAgent then runs report_composer.
LoopAdvance(st) ==
    IF Escalates(LoopSubAgents[loop_idx], st)
    THEN /\ loop_exit' = "Escalated"
         /\ pc' = "report_composer"
         /\ UNCHANGED <<times_looped, loop_idx>>
    ELSE IF loop_idx < Len(LoopSubAgents)
    THEN /\ loop_idx' = loop_idx + 1
         /\ UNCHANGED <<times_looped, loop_exit, pc>>
    ELSE /\ times_looped' = times_looped + 1
         /\ loop_idx' = 1
         /\ IF LoopContinues(times_looped + 1)
            THEN UNCHANGED <<loop_exit, pc>>
            ELSE /\ loop_exit' = "Exhausted"
                 /\ pc' = "report_composer"

\* one call of collect_research_sources_callback, as the history keeps it
RecordCall(before, after, events) ==
    [n_events |-> Len(events),
     id_counter |-> InitialIdCounter(DictGet(before, "url_to_short_id", EmptyDict)),
     urls_before |-> DOMAIN DictGet(before, "url_to_short_id", EmptyDict),
     ids_before |-> DOMAIN DictGet(before, "sources", EmptyDict),
     urls_after |-> DOMAIN after["url_to_short_id"],
     ids_after |-> DOMAIN after["sources"]]

\* section_planner, lines 208-217
section_planner ==
    /\ pc = "section_planner"
    /\ state' = DictSet(state, "report_sections", SomeText)
    /\ pc' = "section_researcher"
    /\ UNCHANGED <<times_looped, loop_idx, loop_exit, session_events,
                   eval_steps, search_steps, grades, record_calls, warnings,
                   escalate>>

\* section_researcher with its after_agent_callback, lines 219-235; the
\* LoopAgent starts next
section_researcher ==
    /\ pc = "section_researcher"
    /\ \E new \in NewEvents :
         LET events == session_events \o new
             before == DictSet(state, "section_research_findings", SomeText)
             after == Record(before, events)
         IN /\ Len(events) <= MaxSessionEvents
            /\ session_events' = events
            /\ state' = after
            /\ record_calls' = Append(record_calls, RecordCall(before, after, events))
    /\ pc' = "iterative_refinement_loop"
    /\ times_looped' = 0
    /\ loop_idx' = 1
    /\ loop_exit' = "Running"
    /\ UNCHANGED <<eval_steps, search_steps, grades, warnings, escalate>>

\* research_evaluator, lines 239-252, as a sub-agent of the loop
research_evaluator ==
    /\ pc = "iterative_refinement_loop"
    /\ LoopSubAgents[loop_idx] = "research_evaluator"
    /\ \E grade \in Grades :
         /\ state' = DictSet(state, "research_evaluation", Some(Feedback(Some(grade))))
         /\ grades' = Append(grades, grade)
         /\ LoopAdvance(state')
    /\ eval_steps' = eval_steps + 1
    /\ UNCHANGED <<session_events, search_steps, record_calls, warnings, escalate>>

\* enhanced_search_executor with its after_agent_callback, lines 254-269, as
\* a sub-agent of the loop
enhanced_search_executor ==
    /\ pc = "iterative_refinement_loop"
    /\ LoopSubAgents[loop_idx] = "enhanced_search_executor"
    /\ \E new \in NewEvents :
         LET events == session_events \o new
             before == DictSet(state, "section_research_findings", SomeText)
             after == Record(before, events)
         IN /\ Len(events) <= MaxSessionEvents
            /\ session_events' = events
            /\ state' = after
            /\ record_calls' = Append(record_calls, RecordCall(before, after, events))
            /\ LoopAdvance(after)
    /\ search_steps' = search_steps + 1
    /\ UNCHANGED <<eval_steps, grades, warnings, escalate>>

\* report_composer with its after_agent_callback, lines 272-282, writing draft
report_composer(draft) ==
    /\ pc = "report_composer"
    /\ LET drafted == DictSet(state, "final_cited_report", draft)
       IN /\ state' = CitationReplacement(drafted)
          /\ warnings' = warnings \o
                CiteWarnings(draft, DictGet(drafted, "sources", EmptyDict), 1)
    /\ pc' = "done"
    /\ UNCHANGED <<times_looped, loop_idx, loop_exit, session_events,
                   eval_steps, search_steps, grades, record_calls, escalate>>

Init ==
    /\ pc = "section_planner"
    /\ times_looped = 0
    /\ loop_idx = 1
    /\ loop_exit = "Running"
    /\ state = EmptyDict
    /\ session_events = <<>>
    /\ eval_steps = 0
    /\ search_steps = 0
    /\ grades = <<>>
    /\ record_calls = <<>>
    /\ warnings = <<>>
    /\ escalate = None

Next ==
    \/ section_planner
    \/ section_researcher
    \/ research_evaluator
    \/ enhanced_search_executor
    \/ \E draft \in PipelineDrafts : report_composer(draft)

\* a run of research_pipeline
Spec == Init /\ [][Next]_vars

\* the research agents of the pipeline: every sub-agent before report_composer
ResearchNext ==
    \/ section_planner
    \/ section_researcher
    \/ research_evaluator
    \/ enhanced_search_executor

\* a run of research_pipeline up to the start of report_composer: all the
\* record calls of a session
ResearchSpec == Init /\ [][ResearchNext]_vars

---------------------------------------------------------------------------
(* EscalationChecker on its own, lines 164-184: one run of the agent on a  *)
(* session whose state holds any evaluation, or none.                      *)

\* Feedback.comment
GateComments == {<<>>, <<"o", "k">>, <<"t", "h", "i", "n">>}

\* Feedback.follow_up_queries: None or a list of SearchQuery
GateQueries ==
    {None, Some(<<>>), Some(<<[search_query |-> <<"q">>]>>),
     Some(<<[search_query |-> <<"q">>], [search_query |-> <<"r">>]>>)}

\* the dicts "research_evaluation" may hold: a Feedback (lines 48-60) with
\* either grade, and dicts without a grade
GateEvaluations ==
    {[grade |-> Some(g), comment |-> Some(c), follow_up_queries |-> q] :
        g \in Grades, c \in GateComments, q \in GateQueries}
    \cup {[comment |-> Some(c)] : c \in GateComments}
    \cup {EmptyDict}

\* session states the checker may find: the key absent, None, or an evaluation
GateStates ==
    LET bases == {EmptyDict, DictSet(EmptyDict, "section_research_findings", SomeText)}
    IN bases
       \cup {DictSet(b, "research_evaluation", None) : b \in bases}
       \cup {DictSet(b, "research_evaluation", Some(e)) :
                b \in bases, e \in GateEvaluations}

\* EscalationChecker._run_async_impl, lines 170-184
escalation_checker ==
    /\ pc = "escalation_checker"
    /\ escalate' = Some(EscalationChecker(state))
    /\ pc' = "done"
    /\ UNCHANGED <<times_looped, loop_idx, loop_exit, state, session_events,
                   eval_steps, search_steps, grades, record_calls, warnings>>

GateInit ==
    /\ pc = "escalation_checker"
    /\ times_looped = 0
    /\ loop_idx = 1
    /\ loop_exit = "Running"
    /\ state \in GateStates
    /\ session_events = <<>>
    /\ eval_steps = 0
    /\ search_steps = 0
    /\ grades = <<>>
    /\ record_calls = <<>>
    /\ warnings = <<>>
    /\ escalate = None

GateNext == escalation_checker

\* one run of EscalationChecker on any session state
GateSpec == GateInit /\ [][GateNext]_vars

---------------------------------------------------------------------------
(* report_composer and citation_replacement_callback on their own, lines   *)
(* 127-160 and 272-282: the last step of the pipeline on any draft put     *)
(* together from a few pieces, over a registry record has left.            *)

\* the most pieces of a draft
MaxDraftPieces == 3

\* a web chunk whose title has whitespace before punctuation
ChunkW == WebChunk(Some(<<"u">>), Some(<<"T", " ", ";">>), Some(<<"w">>))

\* the session states report_composer may find: record has run on no event,
\* or on an event with the chunks ChunkW and ChunkY
RewriteStates ==
    {Record(DictSet(EmptyDict, "section_research_findings", SomeText), events) :
        events \in {<<>>, <<GroundingEvent(Some(<<ChunkW, ChunkY>>), None)>>}}

\* whitespace, punctuation, a letter, and markers of src-1 and src-2
NormPieces ==
    {<<" ">>, <<"\n">>, <<".">>, <<":">>, <<"a">>, DraftPieces[2], DraftPieces[7]}

\* the drafts of at most MaxDraftPieces pieces
RewriteDrafts == {Concat(q) : q \in SeqsUpTo(NormPieces, MaxDraftPieces)}

RewriteInit ==
    /\ pc = "report_composer"
    /\ times_looped = max_iterations
    /\ loop_idx = 1
    /\ loop_exit = "Exhausted"
    /\ state \in RewriteStates
    /\ session_events = <<>>
    /\ eval_steps = max_iterations
    /\ search_steps = max_iterations
    /\ grades = <<>>
    /\ record_calls = <<>>
    /\ warnings = <<>>
    /\ escalate = None

RewriteNext == \E draft \in RewriteDrafts : report_composer(draft)

\* one run of report_composer with the citation rewrite
RewriteSpec == RewriteInit /\ [][RewriteNext]_vars

---------------------------------------------------------------------------
(* What the properties below read off a state *)

Sources == DictGet(state, "sources", EmptyDict)

UrlToShortId == DictGet(state, "url_to_short_id", EmptyDict)

Draft == DictGet(state, "final_cited_report", <<>>)

FinalReport == DictGet(state, "final_report_with_citations", <<>>)

\* the loop has ended
LoopOver == pc \in {"report_composer", "done"}

HasPass(gs) == \E i \in 1..Len(gs) : gs[i] = "pass"

AllFail(gs) == \A i \in 1..Len(gs) : gs[i] = "fail"

\* the position of the first pass among the grades
FirstPass(gs) == CHOOSE i \in 1..Len(gs) : gs[i] = "pass" /\ \A j \in 1..(i - 1) : gs[j] = "fail"

Range(f) == {f[x] : x \in DOMAIN f}

\* {src-1, ..., src-k}
IdsUpTo(k) == {ShortId(n) : n \in 1..k}

\* the chunks record reads from an event: none unless the event has grounding
\* metadata with a non-empty chunk list
ChunksRead(e) ==
    IF ~IsNone(e.grounding_metadata) THEN OrEmpty(e.grounding_metadata[1].grounding_chunks)
    ELSE <<>>

\* the supports record reads from an event
SupportsRead(e) ==
    IF ChunksRead(e) # <<>> THEN OrEmpty(e.grounding_metadata[1].grounding_supports)
    ELSE <<>>

\* the URLs of the web chunks of the events
UrlsSeen(events) ==
    UNION {{ChunksRead(events[k])[c].web[1].uri :
               c \in {c \in 1..Len(ChunksRead(events[k])) : ~IsNone(ChunksRead(events[k])[c].web)}} :
           k \in 1..Len(events)}

\* every reference of a support to a chunk: <<event, support, position>>
AllRefs(events) ==
    UNION {UNION {{<<k, j, i>> :
                      i \in 1..Len(OrEmpty(SupportsRead(events[k])[j].grounding_chunk_indices))} :
                  j \in 1..Len(SupportsRead(events[k]))} :
           k \in 1..Len(events)}

\* whether reference t names a web chunk of its event whose URL is url
RefersTo(events, t, url) ==
    LET chunks == ChunksRead(events[t[1]])
        idx == OrEmpty(SupportsRead(events[t[1]])[t[2]].grounding_chunk_indices)[t[3]]
    IN /\ idx + 1 \in 1..Len(chunks)
       /\ ~IsNone(chunks[idx + 1].web)
       /\ chunks[idx + 1].web[1].uri = url

\* the number of references of the events' supports to the chunks of url
RefCount(events, url) == Cardinality({t \in AllRefs(events) : RefersTo(events, t, url)})

---------------------------------------------------------------------------
(* Properties of the refinement loop *)

\* C1: the loop stops on the first passing evaluation: no follow-up search
\* runs after a pass, so the follow-up searches are the fail evaluations
\* before the first pass, and the loop ends Escalated right after the passing
\* evaluation (grades fail, pass: 2 evaluations, 1 follow-up search).
C1_StopsOnFirstPass ==
    /\ HasPass(grades) => search_steps = FirstPass(grades) - 1
    /\ (LoopOver /\ HasPass(grades)) =>
          /\ loop_exit = "Escalated"
          /\ eval_steps = FirstPass(grades)
    /\ (LoopOver /\ max_iterations = 2 /\ Len(grades) >= 2
            /\ grades[1] = "fail" /\ grades[2] = "pass") =>
          /\ eval_steps = 2
          /\ search_steps = 1
          /\ loop_exit = "Escalated"

\* C2: when every evaluation fails the loop runs max_iterations evaluations
\* and max_iterations follow-up searches and ends Exhausted; that is no
\* failure: report_composer runs next and the citation rewrite writes the
\* final report from the registry accumulated so far.
C2_AllFailExhausts ==
    /\ (LoopOver /\ AllFail(grades)) =>
          /\ eval_steps = max_iterations
          /\ search_steps = max_iterations
          /\ loop_exit = "Exhausted"
    /\ loop_exit = "Exhausted" => LoopOver
    /\ (pc = "done" /\ loop_exit = "Exhausted") =>
          /\ {"section_research_findings", "sources", "final_cited_report",
              "final_report_with_citations"} \subseteq DOMAIN state
          /\ DOMAIN Sources = IdsUpTo(Cardinality(UrlsSeen(session_events)))

C2_Witness ==
    /\ pc = "done"
    /\ grades = <<"fail", "fail">>
    /\ loop_exit = "Exhausted"
    /\ search_steps = 2
    /\ "final_report_with_citations" \in DOMAIN state

---------------------------------------------------------------------------
(* Properties of the source registry *)

\* C3: after the pipeline's record calls every URL of the session's events
\* has exactly one Source, whose supported_claims has one claim per reference
\* of a support to that URL's chunks.
C3_OneSourceOneClaimPerSupport ==
    pc = "done" =>
        \A url \in UrlsSeen(session_events) :
            LET S == {sid \in DOMAIN Sources : Sources[sid].url = url}
            IN /\ Cardinality(S) = 1
               /\ \A sid \in S :
                     Len(Sources[sid].supported_claims) = RefCount(session_events, url)

\* C4: the short ids are src-1, src-2, ... with no gap and no collision: every
\* record call starts its counter at len(url_to_short_id) + 1, finds and leaves
\* the ids {src-1..src-k} for the k URLs known, and the registry always holds
\* exactly one id per distinct URL seen.
C4_SequentialIds ==
    /\ \A c \in 1..Len(record_calls) :
          /\ record_calls[c].id_counter = Cardinality(record_calls[c].urls_before) + 1
          /\ record_calls[c].ids_before = IdsUpTo(Cardinality(record_calls[c].urls_before))
          /\ record_calls[c].ids_after = IdsUpTo(Cardinality(record_calls[c].urls_after))
    /\ DOMAIN UrlToShortId = UrlsSeen(session_events)
    /\ DOMAIN Sources = IdsUpTo(Cardinality(UrlsSeen(session_events)))
    /\ Range(UrlToShortId) = DOMAIN Sources
    /\ \A u, v \in DOMAIN UrlToShortId : UrlToShortId[u] = UrlToShortId[v] => u = v

\* three ids, minted by two different record calls
C4_Witness ==
    /\ Cardinality(DOMAIN Sources) = 3
    /\ \E c, d \in 1..Len(record_calls) :
          /\ c < d
          /\ record_calls[c].ids_after # record_calls[c].ids_before
          /\ record_calls[d].ids_after # record_calls[d].ids_before

\* C5: a record call on a batch of events that the call before it has
\* already processed in full adds no key to url_to_short_id or to sources.
C5_ReRecordAddsNoId ==
    \A c \in 2..Len(record_calls) :
        record_calls[c].n_events = record_calls[c - 1].n_events =>
            /\ record_calls[c].ids_after = record_calls[c].ids_before
            /\ record_calls[c].urls_after = record_calls[c].urls_before

\* a second call on the same events, with sources known
C5_Witness ==
    \E c \in 2..Len(record_calls) :
        /\ record_calls[c].n_events = record_calls[c - 1].n_events
        /\ Cardinality(record_calls[c].ids_before) >= 2

\* C6: a record call appends only new claims: what it leaves in sources is
\* what recording the events added since the call before it would leave, so
\* no claim an earlier call appended is appended again.
C6_OnlyNewClaims ==
    [][Len(record_calls') > Len(record_calls) =>
          state'["sources"] =
              Record(DictSet(state, "section_research_findings", SomeText),
                     SubSeq(session_events', Len(session_events) + 1,
                            Len(session_events')))["sources"]]_vars

---------------------------------------------------------------------------
(* Properties of the citation rewrite *)

\* C7: the final report holds no substring that matches the citation marker
\* pattern.
C7_NoMarkerLeft == pc = "done" => ~HasCite(FinalReport)

\* the registry of the example: src-1 is Example at http://x
ExampleRegistry ==
    /\ ShortId(1) \in DOMAIN Sources
    /\ Sources[ShortId(1)].title = Some(<<"E", "x", "a", "m", "p", "l", "e">>)
    /\ Sources[ShortId(1)].url = UrlX

\* C8 as stated: the draft  Fee <cite source="src-1"/> , Bar.  yields
\* Fee [Example](http://x), Bar.  with one space between Fee and the link.
C8_OneSpace ==
    (pc = "done" /\ Draft = DraftFeeBar /\ ExampleRegistry) =>
        FinalReport = <<"F", "e", "e", " ", "[", "E", "x", "a", "m", "p", "l", "e", "]", "(", "h", "t", "t", "p", ":", "/", "/", "x", ")", ",", " ", "B", "a", "r", ".">>

\* C8 as amended: that draft yields  Fee  [Example](http://x), Bar.  The comma
\* is glued to the link, and two spaces stand between Fee and the link: the
\* draft's own and the one the replacement starts with.
C8_TwoSpaces ==
    (pc = "done" /\ Draft = DraftFeeBar /\ ExampleRegistry) =>
        FinalReport = <<"F", "e", "e", " ", " ", "[", "E", "x", "a", "m", "p", "l", "e", "]", "(", "h", "t", "t", "p", ":", "/", "/", "x", ")", ",", " ", "B", "a", "r", ".">>

C8_Witness == pc = "done" /\ Draft = DraftFeeBar /\ ExampleRegistry

\* whether an Optional str is available: neither None nor empty
Available(o) == ~IsNone(o) /\ o[1] # <<>>

\* the display text C9 states: the title, else the domain, else the short id
ClaimedDisplayText(source_info, short_id) ==
    IF "title" \in DOMAIN source_info /\ Available(source_info.title)
    THEN source_info.title[1]
    ELSE IF "domain" \in DOMAIN source_info /\ Available(source_info.domain)
    THEN source_info.domain[1]
    ELSE short_id

RECURSIVE ClaimedCiteSub(_, _, _)
\* the substitution C9 and C10 state: a marker of a known short id becomes
\* " [display](url)", a marker of an unknown one the empty string
ClaimedCiteSub(s, sources, i) ==
    IF i > Len(s) THEN <<>>
    ELSE LET m == MatchCite(s, i)
         IN IF m.ok
            THEN (IF m.group1 \in DOMAIN sources
                  THEN <<" ", "[">> \o ClaimedDisplayText(sources[m.group1], m.group1)
                           \o <<"]", "(">> \o Str(sources[m.group1].url) \o <<")">>
                  ELSE <<>>)
                 \o ClaimedCiteSub(s, sources, m.end)
            ELSE <<s[i]>> \o ClaimedCiteSub(s, sources, i + 1)

\* C9: a marker of a known short id is replaced by a space and
\* [display](url), display being the title, or the domain when the title is
\* not available, or the short id when neither is.
C9_DisplayFallsBack ==
    pc = "done" => FinalReport = PunctSub(ClaimedCiteSub(Draft, Sources, 1), 1)

\* C10: a marker of an unknown short id is removed with a warning and the
\* final report is still written; no marker of an unknown short id appears
\* in it.
C10_UnknownMarkerGone ==
    pc = "done" =>
        /\ "final_report_with_citations" \in DOMAIN state
        /\ Len(warnings) =
              Cardinality({i \in 1..Len(Draft) :
                  /\ MatchCite(Draft, i).ok
                  /\ MatchCite(Draft, i).group1 \notin DOMAIN Sources})
        /\ \A i \in 1..Len(FinalReport) :
              MatchCite(FinalReport, i).ok =>
                  MatchCite(FinalReport, i).group1 \in DOMAIN Sources

---------------------------------------------------------------------------
(* Claims C11 to C20 *)

\* the evaluation EscalationChecker found, None when the key is absent
Evaluation == DictGet(state, "research_evaluation", None)

\* the grade of the evaluation, None when there is no evaluation or no grade
EvaluationGrade ==
    IF IsNone(Evaluation) THEN None ELSE DictGet(Evaluation[1], "grade", None)

\* C11: the gate says stop if and only if an evaluation is present and its
\* grade is pass; for grade fail it says continue; for an absent evaluation
\* it says continue.
C11_StopIffPass ==
    ~IsNone(escalate) =>
        /\ escalate[1] <=> (~IsNone(Evaluation) /\ EvaluationGrade = Some("pass"))
        /\ EvaluationGrade = Some("fail") => ~escalate[1]
        /\ "research_evaluation" \notin DOMAIN state => ~escalate[1]

\* the checker ran on a passing evaluation and said stop
C11_Witness ==
    /\ escalate = Some(TRUE)
    /\ EvaluationGrade = Some("pass")

\* C12: after any sequence of record calls url_to_short_id maps every URL
\* recorded so far to one short id, no two URLs share a short id, and the
\* keys of sources are exactly the short ids url_to_short_id maps to.
C12_UrlsToIdsOneToOne ==
    /\ UrlsSeen(session_events) \subseteq DOMAIN UrlToShortId
    /\ \A u, v \in DOMAIN UrlToShortId : u # v => UrlToShortId[u] # UrlToShortId[v]
    /\ DOMAIN Sources = Range(UrlToShortId)
    /\ Cardinality(DOMAIN Sources) = Cardinality(DOMAIN UrlToShortId)

\* three record calls have run and three URLs are mapped
C12_Witness ==
    /\ Len(record_calls) = 3
    /\ Cardinality(DOMAIN UrlToShortId) = 3
    /\ Cardinality(Range(UrlToShortId)) = 3

\* the position of a stage in research_pipeline; 5 is the end of the run,
\* after report_composer and its citation rewrite
StageRank(p) ==
    CASE p = "section_planner" -> 1
      [] p = "section_researcher" -> 2
      [] p = "iterative_refinement_loop" -> 3
      [] p = "report_composer" -> 4
      [] p = "done" -> 5
      [] OTHER -> 0

\* what has run by the time a stage is next
StagesDone ==
    /\ StageRank(pc) \in 1..5
    /\ ("report_sections" \in DOMAIN state) <=> StageRank(pc) >= 2
    /\ ("section_research_findings" \in DOMAIN state) <=> StageRank(pc) >= 3
    /\ StageRank(pc) <= 2 => eval_steps = 0 /\ search_steps = 0 /\ record_calls = <<>>
    /\ StageRank(pc) >= 3 => Len(record_calls) = 1 + search_steps
    /\ StageRank(pc) = 3 =>
          /\ loop_exit = "Running"
          /\ loop_idx = 1 => eval_steps = search_steps
          /\ loop_idx = 2 => eval_steps = search_steps + 1
    /\ StageRank(pc) >= 4 => loop_exit \in {"Escalated", "Exhausted"}
    /\ ("final_cited_report" \in DOMAIN state) <=> pc = "done"
    /\ ("final_report_with_citations" \in DOMAIN state) <=> pc = "done"

\* one step of the run: the stage stays (inside the loop only) or the next
\* stage follows; a loop step is one evaluation or one follow-up search with
\* its record, never both; the rewrite's key appears in the step of
\* report_composer and that step ends the run
StageStep ==
    /\ pc # "done"
    /\ StageRank(pc') \in {StageRank(pc), StageRank(pc) + 1}
    /\ StageRank(pc') = StageRank(pc) => StageRank(pc) = 3
    /\ StageRank(pc) # 3 => eval_steps' = eval_steps /\ search_steps' = search_steps
    /\ StageRank(pc) = 3 =>
          \/ /\ loop_idx = 1
             /\ eval_steps' = eval_steps + 1
             /\ search_steps' = search_steps
             /\ record_calls' = record_calls
          \/ /\ loop_idx = 2
             /\ eval_steps' = eval_steps
             /\ search_steps' = search_steps + 1
             /\ Len(record_calls') = Len(record_calls) + 1
    /\ StageRank(pc) = 2 => Len(record_calls') = 1
    /\ ("final_report_with_citations" \in DOMAIN state') => StageRank(pc) = 4

\* C13: a run goes through plan, initial research with its record, the
\* refinement loop, report composition and the citation rewrite in this
\* order and never back; in the loop evaluations and follow-up searches
\* alternate, each search's record done before the next evaluation; the
\* rewrite runs once, after the loop has ended.
C13_StagesInOrder == [][StagesDone /\ StagesDone' /\ StageStep]_vars

\* a run that went through two evaluations, two follow-up searches with
\* their records, and the rewrite
C13_Witness ==
    /\ pc = "done"
    /\ eval_steps = 2
    /\ search_steps = 2
    /\ Len(record_calls) = 3
    /\ {"final_cited_report", "final_report_with_citations"} \subseteq DOMAIN state

\* C14: the citation rewrite leaves the registry as it found it (sources and
\* url_to_short_id identical before and after), leaves the draft under
\* final_cited_report as report_composer wrote it, and writes no session key
\* but final_report_with_citations.
C14_RewriteKeepsRegistry ==
    [][pc = "report_composer" =>
         /\ \A k \in DOMAIN state : k \in DOMAIN state' /\ state'[k] = state[k]
         /\ Sources' = Sources
         /\ UrlToShortId' = UrlToShortId
         /\ DOMAIN state' \ DOMAIN state =
               {"final_cited_report", "final_report_with_citations"}
         /\ Draft' \in PipelineDrafts
         /\ FinalReport' = ProcessedReport(Draft', Sources)]_vars

\* the rewrite has run on a draft it had to change, with a registry of three
\* Sources
C14_Witness ==
    /\ pc = "done"
    /\ Cardinality(DOMAIN Sources) = 3
    /\ Draft = DraftTwoTags
    /\ FinalReport # Draft

\* the events record call c read
EventsAt(c) == SubSeq(session_events, 1, record_calls[c].n_events)

RECURSIVE ClaimsDue(_, _)
\* the references to the web chunks of url that the first c record calls
\* read, each call counting every event it read
ClaimsDue(url, c) ==
    IF c = 0 THEN 0 ELSE ClaimsDue(url, c - 1) + RefCount(EventsAt(c), url)

\* events with no grounding metadata, or with metadata and no chunks
SkippedEvents(events) ==
    {k \in 1..Len(events) : ChunksRead(events[k]) = <<>>}

\* C15: record takes malformed input without failing: an event with no
\* grounding metadata or no chunks adds no Source and no claim, whatever
\* supports it has; a chunk that is no web reference adds no Source; a
\* support index that is not in the event's chunk mapping adds no claim.  So
\* the Sources are those of the web chunks of the events that have chunks,
\* and a Source has no more claims than the calls read references to web
\* chunks of its URL.
C15_MalformedSkipped ==
    Len(record_calls) >= 1 =>
        /\ {"sources", "url_to_short_id"} \subseteq DOMAIN state
        /\ {Sources[sid].url : sid \in DOMAIN Sources} = UrlsSeen(session_events)
        /\ Cardinality(DOMAIN Sources) = Cardinality(UrlsSeen(session_events))
        /\ \A sid \in DOMAIN Sources :
              Len(Sources[sid].supported_claims)
                  = ClaimsDue(Sources[sid].url, Len(record_calls))
        /\ SkippedEvents(session_events) = 1..Len(session_events) =>
              Sources = EmptyDict

\* record has read an event with no metadata, an event with supports and no
\* chunks, and an event with a chunk that is no web reference and a support
\* index outside the mapping; one Source came of it
C15_Witness ==
    /\ Len(record_calls) >= 1
    /\ \E k \in 1..Len(session_events) : session_events[k] = EventPool[2]
    /\ \E k \in 1..Len(session_events) : session_events[k] = EventPool[3]
    /\ \E k \in 1..Len(session_events) : session_events[k] = EventPool[4]
    /\ Cardinality(DOMAIN Sources) = 1

\* the order in which record reads references: by event, support, position
RefBefore(t, u) ==
    \/ t[1] < u[1]
    \/ t[1] = u[1] /\ t[2] < u[2]
    \/ t[1] = u[1] /\ t[2] = u[2] /\ t[3] <= u[3]

RECURSIVE RefsInOrder(_)
RefsInOrder(S) ==
    IF S = {} THEN <<>>
    ELSE LET first == CHOOSE t \in S : \A u \in S : RefBefore(t, u)
         IN <<first>> \o RefsInOrder(S \ {first})

\* the claim C16 describes for reference t = <<event, support, position>>:
\* the score at the reference's position or 0.5, the segment's text or ""
ClaimOf(events, t) ==
    LET support == SupportsRead(events[t[1]])[t[2]]
        scores == support.confidence_scores
    IN [text_segment |-> IF IsNone(support.segment) THEN Some(<<>>)
                         ELSE support.segment[1].text,
        confidence |-> IF ~IsNone(scores) /\ t[3] <= Len(scores[1])
                       THEN scores[1][t[3]] ELSE 50]

\* the claims one record call over events appends to the Source of url
ClaimsOfCall(events, url) ==
    LET refs == RefsInOrder({t \in AllRefs(events) : RefersTo(events, t, url)})
    IN [n \in 1..Len(refs) |-> ClaimOf(events, refs[n])]

RECURSIVE ClaimsOfCalls(_, _)
\* the claims the first c record calls append to the Source of url
ClaimsOfCalls(url, c) ==
    IF c = 0 THEN <<>>
    ELSE ClaimsOfCalls(url, c - 1) \o ClaimsOfCall(EventsAt(c), url)

\* C16: for each support and each position i of its chunk-index list whose
\* index is in the event's mapping, a record call appends one claim to the
\* mapped Source: its confidence is the support's i-th score, or 0.5 when
\* there are no scores or no i-th score; its text_segment is the segment's
\* text, or "" when the support has no segment.
C16_ClaimPerReference ==
    \A sid \in DOMAIN Sources :
        Sources[sid].supported_claims
            = ClaimsOfCalls(Sources[sid].url, Len(record_calls))

\* one record call has read a support with a score for its first index only
\* and a support with neither scores nor segment
C16_Witness ==
    /\ Len(record_calls) = 1
    /\ session_events = <<EventPool[1], EventPool[2]>>
    /\ \E sid \in DOMAIN Sources :
          /\ Sources[sid].url = UrlY
          /\ Sources[sid].supported_claims
                = <<[text_segment |-> Some(<<"b">>), confidence |-> 50]>>
    /\ \E sid \in DOMAIN Sources :
          /\ Sources[sid].url = UrlX
          /\ Sources[sid].supported_claims
                = <<[text_segment |-> Some(<<"a">>), confidence |-> 90],
                    [text_segment |-> Some(<<"b">>), confidence |-> 80],
                    [text_segment |-> Some(<<>>), confidence |-> 50],
                    [text_segment |-> Some(<<>>), confidence |-> 50]>>

\* the web chunks of the events
WebsSeen(events) ==
    UNION {{ChunksRead(events[k])[c].web[1] :
               c \in {c \in 1..Len(ChunksRead(events[k])) : ~IsNone(ChunksRead(events[k])[c].web)}} :
           k \in 1..Len(events)}

\* the title C17 describes: the chunk's title, or its domain when the title
\* is absent, empty or the domain itself
ClaimedTitle(web) ==
    IF IsNone(web.title) \/ web.title = Some(<<>>) \/ web.title = web.domain
    THEN web.domain
    ELSE web.title

\* C17: a Source made from a web chunk has the chunk's title, or the chunk's
\* domain when the chunk has no title of its own (absent, empty, or equal to
\* the domain); so no recorded Source has a domain and no title.
C17_TitleFallsBackToDomain ==
    \A sid \in DOMAIN Sources :
        /\ \E web \in WebsSeen(session_events) :
              /\ web.uri = Sources[sid].url
              /\ web.domain = Sources[sid].domain
              /\ Sources[sid].title = ClaimedTitle(web)
        /\ ~IsNone(Sources[sid].domain) => ~IsNone(Sources[sid].title)

\* the loop's counter: 0 at the start of the loop, never above
\* max_iterations, and the number of loop bodies run in full; no more than
\* max_iterations evaluations; the loop is over when the counter is
\* max_iterations
IterationBounded ==
    /\ times_looped \in 0..max_iterations
    /\ eval_steps <= max_iterations
    /\ StageRank(pc) <= 2 => times_looped = 0
    /\ StageRank(pc) = 3 =>
          /\ times_looped < max_iterations
          /\ eval_steps + search_steps < 2 * max_iterations
    /\ StageRank(pc) >= 3 =>
          /\ times_looped = search_steps
          /\ eval_steps \in {times_looped, times_looped + 1}
    /\ StageRank(pc) >= 4 => loop_exit \in {"Escalated", "Exhausted"}
    /\ loop_exit = "Exhausted" => times_looped = max_iterations

\* a step changes the counter by one at most, and only at the end of a body;
\* every step of the loop is one more evaluation or follow-up search, so the
\* loop takes 2 * max_iterations steps at most
IterationStep ==
    /\ \/ times_looped' = times_looped
       \/ /\ times_looped' = times_looped + 1
          /\ pc = "iterative_refinement_loop"
          /\ loop_idx = Len(LoopSubAgents)
    /\ pc = "iterative_refinement_loop" =>
          eval_steps' + search_steps' = eval_steps + search_steps + 1
    /\ pc = "section_researcher" => times_looped' = 0 /\ loop_exit' = "Running"

\* C18: the refinement loop always terminates: whatever the evaluations say
\* it reaches Escalated or Exhausted after at most max_iterations (2)
\* evaluations; its counter starts at 0, grows by one per loop body run and
\* never exceeds max_iterations.
C18_LoopTerminates ==
    [][IterationBounded /\ IterationBounded' /\ IterationStep]_vars

\* the loop has ended after its counter went from 0 to max_iterations
C18_Witness ==
    /\ pc = "report_composer"
    /\ loop_exit \in {"Escalated", "Exhausted"}
    /\ times_looped = max_iterations
    /\ eval_steps = max_iterations

\* position i of s holds whitespace of a run that stands directly before one
\* of . , ; :
BeforePunctuation(s, i) ==
    /\ s[i] \in {" ", "\t", "\n", "\r", "\f"}
    /\ \E j \in (i + 1)..Len(s) :
          /\ s[j] \in {".", ",", ";", ":"}
          /\ \A k \in i..(j - 1) : s[k] \in {" ", "\t", "\n", "\r", "\f"}

RECURSIVE WithoutSpaceBeforePunctuation(_, _)
\* s from position i on, without the whitespace before punctuation and with
\* every other character in its place
WithoutSpaceBeforePunctuation(s, i) ==
    IF i > Len(s) THEN <<>>
    ELSE (IF BeforePunctuation(s, i) THEN <<>> ELSE <<s[i]>>)
             \o WithoutSpaceBeforePunctuation(s, i + 1)

\* C19: after the normalization pass the final report has no whitespace
\* character directly followed by one of . , ; : and it is the text after the
\* marker substitution with every whitespace run directly before such a
\* character taken out, in the draft's own text and in a link's text alike,
\* and with no other character changed.
C19_NoSpaceBeforePunctuation ==
    pc = "done" =>
        /\ \A i \in 1..(Len(FinalReport) - 1) :
              ~(/\ FinalReport[i] \in {" ", "\t", "\n", "\r", "\f"}
                /\ FinalReport[i + 1] \in {".", ",", ";", ":"})
        /\ FinalReport = WithoutSpaceBeforePunctuation(CiteSub(Draft, Sources, 1), 1)

\* the draft `<cite source="src-1"/>` newline `.` over a registry whose src-1
\* has the title `T ;`: the space in the link's text and the newline before
\* the full stop are gone, the space before the link stays
C19_Witness ==
    /\ pc = "done"
    /\ Draft = Concat(<<DraftPieces[2], <<"\n">>, <<".">>>>)
    /\ FinalReport = <<" ", "[", "T", ";", "]", "(", "u", ")", ".">>

\* p is a prefix of q
IsPrefix(p, q) == Len(p) <= Len(q) /\ SubSeq(q, 1, Len(p)) = p

\* C20: supported_claims only grows at its end across the search rounds: in
\* every record call, each Source that was there before is there after, and
\* its claims before are a prefix of its claims after.
C20_ClaimsAppendOnly ==
    [][\A sid \in DOMAIN Sources :
          /\ sid \in DOMAIN Sources'
          /\ IsPrefix(Sources[sid].supported_claims, Sources'[sid].supported_claims)]_vars

\* at least two record calls have run, and the last one added claims to a
\* Source that had claims before it
C20_Witness ==
    /\ Len(record_calls) >= 2
    /\ \E sid \in DOMAIN Sources :
          /\ sid \in record_calls[Len(record_calls)].ids_before
          /\ Len(ClaimsOfCalls(Sources[sid].url, Len(record_calls) - 1)) >= 1
          /\ Len(Sources[sid].supported_claims)
                > Len(ClaimsOfCalls(Sources[sid].url, Len(record_calls) - 1))

---------------------------------------------------------------------------
(* Claims C21 and C22 *)

\* the places <<event, chunk>> of the web chunks of url in the events
WebPlaces(events, url) ==
    {p \in UNION {{<<k, c>> : c \in 1..Len(ChunksRead(events[k]))} : k \in 1..Len(events)} :
        /\ ~IsNone(ChunksRead(events[p[1]])[p[2]].web)
        /\ ChunksRead(events[p[1]])[p[2]].web[1].uri = url}

\* the first web chunk of url in reading order
FirstWeb(events, url) ==
    LET first == CHOOSE p \in WebPlaces(events, url) :
                    \A q \in WebPlaces(events, url) :
                        p[1] < q[1] \/ (p[1] = q[1] /\ p[2] <= q[2])
    IN ChunksRead(events[first[1]])[first[2]].web[1]

\* every Source has the url, title and domain of the first chunk of its URL
FromFirstChunk ==
    \A u \in DOMAIN UrlToShortId :
        LET source == Sources[UrlToShortId[u]]
            web == FirstWeb(session_events, u)
        IN /\ source.url = u
           /\ source.title = web.title
           /\ source.domain = web.domain

\* a step keeps the short id of every URL and the url, title and domain of
\* its Source
IdsKept ==
    \A u \in DOMAIN UrlToShortId :
        /\ u \in DOMAIN UrlToShortId'
        /\ UrlToShortId'[u] = UrlToShortId[u]
        /\ Sources'[UrlToShortId[u]].url = Sources[UrlToShortId[u]].url
        /\ Sources'[UrlToShortId[u]].title = Sources[UrlToShortId[u]].title
        /\ Sources'[UrlToShortId[u]].domain = Sources[UrlToShortId[u]].domain

\* C21: identifiers are stable: no record call changes the short id a URL
\* has, and a Source keeps the url, title and domain of the first chunk that
\* brought its URL, also when a later chunk has the same URL under another
\* title or domain.
C21_IdsStable == [][FromFirstChunk /\ FromFirstChunk' /\ IdsKept]_vars

\* http://x came first as ChunkX (Example, x), in the first record call; a
\* later call read it again as ChunkXAgain (Other, x.org); its Source is
\* still src-1 with the first title and domain
C21_Witness ==
    /\ Len(record_calls) >= 2
    /\ record_calls[1].n_events = 1
    /\ Len(session_events) >= 2
    /\ session_events[1] = EventPool[1]
    /\ session_events[2] = EventPool[2]
    /\ UrlToShortId[UrlX] = ShortId(1)
    /\ Sources[ShortId(1)].title = ChunkX.web[1].title
    /\ Sources[ShortId(1)].domain = ChunkX.web[1].domain
    /\ Sources[ShortId(1)].title # ChunkXAgain.web[1].title

RECURSIVE ResolvedIds(_, _, _)
\* the short ids of the markers the rewrite's scan of s finds, from position
\* i on, and finds a Source for
ResolvedIds(s, sources, i) ==
    IF i > Len(s) THEN {}
    ELSE LET m == MatchCite(s, i)
         IN IF m.ok
            THEN (IF m.group1 \in DOMAIN sources THEN {m.group1} ELSE {})
                     \cup ResolvedIds(s, sources, m.end)
            ELSE ResolvedIds(s, sources, i + 1)

\* sub stands somewhere in s
Contains(s, sub) ==
    \E i \in 1..(Len(s) - Len(sub) + 1) : SubSeq(s, i, i + Len(sub) - 1) = sub

\* C22: the registry's entries agree with each other after any record calls:
\* for every URL u recorded, sources[url_to_short_id[u]].url is u, and every
\* sources[s].short_id is its key s; so every marker the rewrite resolves
\* becomes a link to the one URL its short id was minted for.
C22_RegistrySelfConsistent ==
    /\ \A u \in DOMAIN UrlToShortId :
          /\ UrlToShortId[u] \in DOMAIN Sources
          /\ Sources[UrlToShortId[u]].url = u
    /\ \A sid \in DOMAIN Sources : Sources[sid].short_id = sid
    /\ pc = "done" =>
          \A sid \in ResolvedIds(Draft, Sources, 1) :
              \E u \in DOMAIN UrlToShortId :
                  /\ UrlToShortId[u] = sid
                  /\ \A v \in DOMAIN UrlToShortId : UrlToShortId[v] = sid => v = u
                  /\ Contains(FinalReport, <<"]", "(">> \o Str(u) \o <<")">>)

\* after three record calls that minted three ids, the rewrite has resolved
\* the marker of src-2, minted for http://y, into a link to http://y
C22_Witness ==
    /\ pc = "done"
    /\ Len(record_calls) = 3
    /\ Cardinality(DOMAIN Sources) = 3
    /\ Draft = DraftTwoTags
    /\ ShortId(2) \in ResolvedIds(Draft, Sources, 1)
    /\ UrlToShortId[UrlY] = ShortId(2)
    /\ Contains(FinalReport, <<"]", "(">> \o Str(UrlY) \o <<")">>)

===========================================================================
